---- MODULE Spec2Model ----
(***************************************************************************)
(* Bill splitter bot (src/main.py): the bill documents of one chat in the  *)
(* MongoDB collection, and the update handlers that read and write them.   *)
(*                                                                         *)
(* Every handler starts with get_active_bill(chat_id), works on the copy   *)
(* it got, and writes that copy back whole (save_bill = replace_one by     *)
(* _id, no version check, no upsert).  Each pymongo call is one atomic     *)
(* document operation; nothing makes two of them atomic together.  The     *)
(* bot is deployed in webhook mode (main.py:1318-1330), where several      *)
(* instances of the program serve updates against the same collection, so  *)
(* handlers interleave at the grain of single database operations.  A      *)
(* handler instance is therefore modelled as: Load (the find_one), then    *)
(* one step per database write, the handler's local computation between    *)
(* two database operations belonging to the step of the later one.         *)
(***************************************************************************)
EXTENDS Integers, Sequences, FiniteSets, TLC

\* ----------------------------------------------------------------- bounds
\* documents ever inserted into the collection (insert_one calls)
MaxBills == 2
\* items one bill copy can hold (caps next_item_id)
MaxItems == 2
\* items one receipt extraction returns
MaxOcrItems == 2
\* updates handled in one run (handler invocations)
MaxOps == 4

\* ----------------------------------------------------------------- inputs
Procs == {"h1", "h2"}
Users == {1, 2}
Chat == 1
None == "None"
Names == {"A"}
\* item prices in use
Prices == {300, 200}
\* the last word of an /additem text
PriceTexts == {"300", "200", "0", "-5", "abc"}
\* the words before it; "" for a text of one word only
NameArgs == Names \cup {""}
\* prices the receipt extractor returns
OcrPrices == {300}
\* item numbers a user types or taps; one with no item yet is "not found"
ItemIds == 1..MaxItems
Currencies == {"THB", "JPY"}
\* JPY->THB rates the rate service returns, in 1/100 THB
Rates == {25}
\* texts sent while a manual rate is awaited
RateTexts == {"25", "0", "abc"}
Modes == {"both_inclusive", "sc_exclusive_vat_inclusive", "both_exclusive"}
Pcts == {0, 10}
\* the first word of a /setfees text
PctTexts == {"0", "10", "-1", "abc"}
\* its second word; "" for a text of one word
VatTexts == {"10", "-1", "abc", ""}
Handles == {"ann", "BOB", "zed"}

\* float(text) on the texts in use: <<x>> for the number read, <<>> for a
\* ValueError
\* float("nan"): a float that every comparison answers False for; it is coded
\* as a number that no text and no computation of the model yields
NaN == -999999

\* <= and > on floats
FloatLe(x, y) == x # NaN /\ y # NaN /\ x <= y
FloatGt(x, y) == x # NaN /\ y # NaN /\ x > y

ParseFloat(t) ==
  CASE t = "300" -> <<300>>
    [] t = "200" -> <<200>>
    [] t = "25" -> <<25>>
    [] t = "10" -> <<10>>
    [] t = "0" -> <<0>>
    [] t = "-1" -> <<-1>>
    [] t = "-5" -> <<-5>>
    [] t = "nan" -> <<NaN>>
    [] OTHER -> <<>>

\* get_display_name: "@username" for a user who has one
get_display_name(u) == IF u = 1 THEN "@ann" ELSE "@Bob"

\* str.lower on the names and handles in use
Lower(s) ==
  CASE s = "BOB" -> "bob"
    [] s = "@BOB" -> "@bob"
    [] s = "@Bob" -> "@bob"
    [] OTHER -> s

AtHandle(h) ==
  CASE h = "ann" -> "@ann"
    [] h = "BOB" -> "@BOB"
    [] OTHER -> "@zed"

\* ------------------------------------------------------------ documents
\* db       the bills collection: _id -> document
\* nextOid  the next _id insert_one assigns
\* pc, loc  each handler instance's position and its local variable `bill`
\* pending  photo_handler's extracted items not yet added
\* ops      updates taken so far
\* reply    what the last finished handler step answered
VARIABLES db, nextOid, pc, loc, pending, ops, reply

vars == <<db, nextOid, pc, loc, pending, ops, reply>>

\* a handler's local variable `bill` when it holds no document
NoBill == [oid |-> 0]

new_bill_doc(oid, chat_id, creator_id, creator_name) ==
  [ oid |-> oid,
    chat_id |-> chat_id,
    creator_id |-> creator_id,
    creator_name |-> creator_name,
    currency |-> None,
    jpy_to_thb_rate |-> <<>>,
    service_charge_pct |-> <<>>,
    vat_pct |-> <<>>,
    fees_mode |-> None,
    items |-> <<>>,
    members |-> <<[uid |-> creator_id, name |-> creator_name]>>,
    next_item_id |-> 1,
    created_at |-> oid,
    is_finalized |-> FALSE,
    finalized_at |-> None,
    awaiting_photo |-> FALSE,
    awaiting_manual_rate |-> FALSE,
    awaiting_fees |-> FALSE ]

\* the documents find_one({"chat_id": chat_id, "is_finalized": False}) matches
ActiveBills(chat_id) ==
  {db[o] : o \in {x \in DOMAIN db : db[x].chat_id = chat_id /\ ~db[x].is_finalized}}

\* bills_col.replace_one({"_id": bill["_id"]}, bill): no upsert
save_bill(d, bill) ==
  IF bill.oid \in DOMAIN d THEN [d EXCEPT ![bill.oid] = bill] ELSE d

\* bills_col.insert_one(bill)
insert_one(d, bill) ==
  [o \in DOMAIN d \cup {bill.oid} |-> IF o = bill.oid THEN bill ELSE d[o]]

\* bills_col.delete_one({"_id": oid})
delete_one(d, oid) == [o \in DOMAIN d \ {oid} |-> d[o]]

\* the local copy after add_item_to_bill's append and increment
add_item(bill, name, price) ==
  [bill EXCEPT
     !.items = Append(@, [id |-> bill.next_item_id, name |-> name,
                          price |-> price, claimed_by |-> <<>>]),
     !.next_item_id = @ + 1]

\* index of the first item with this id, 0 when there is none
get_item(bill, item_id) ==
  LET hits == {k \in 1..Len(bill.items) : bill.items[k].id = item_id}
  IN IF hits = {} THEN 0 ELSE CHOOSE k \in hits : \A j \in hits : k <= j

IsMember(bill, u) == \E k \in 1..Len(bill.members) : bill.members[k].uid = u

HasClaim(item, u) == \E k \in 1..Len(item.claimed_by) : item.claimed_by[k].user_id = u

\* the list cleared of every claim
WithoutUser_all(claims, u) == <<>>

\* [c for c in item["claimed_by"] if str(c["user_id"]) != uid_str]
WithoutUser(claims, u) == SelectSeq(claims, LAMBDA c : c.user_id # u)


\* ------------------------------------------------------------ handler steps
Init ==
  /\ db = [o \in {} |-> NoBill]
  /\ nextOid = 1
  /\ pc = [p \in Procs |-> "idle"]
  /\ loc = [p \in Procs |-> NoBill]
  /\ pending = [p \in Procs |-> <<>>]
  /\ ops = 0
  /\ reply = "none"

\* bill = get_active_bill(chat_id): the first line of every handler.  find_one
\* returns any one matching document (natural order), None when none matches.
\* The handler instances are interchangeable: an update goes to h1 when h1 is
\* free, to h2 otherwise.
Load(p) ==
  /\ pc[p] = "idle"
  /\ p = "h1" \/ pc["h1"] # "idle"
  /\ ops < MaxOps
  /\ ops' = ops + 1
  /\ \E b \in (IF ActiveBills(Chat) = {} THEN {NoBill} ELSE ActiveBills(Chat)) :
       loc' = [loc EXCEPT ![p] = b]
  /\ pc' = [pc EXCEPT ![p] = "loaded"]
  /\ UNCHANGED <<db, nextOid, pending, reply>>

\* the handler replies and returns without a database write
Return(p, msg) ==
  /\ reply' = msg
  /\ pc' = [pc EXCEPT ![p] = "idle"]
  /\ loc' = [loc EXCEPT ![p] = NoBill]
  /\ pending' = [pending EXCEPT ![p] = <<>>]
  /\ UNCHANGED <<db, nextOid, ops>>

\* save_bill(bill) as the handler's last database operation
Commit(p, bill, msg) ==
  /\ reply' = msg
  /\ db' = save_bill(db, bill)
  /\ pc' = [pc EXCEPT ![p] = "idle"]
  /\ loc' = [loc EXCEPT ![p] = NoBill]
  /\ pending' = [pending EXCEPT ![p] = <<>>]
  /\ UNCHANGED <<nextOid, ops>>

Loaded(p) == pc[p] = "loaded"

cmd_newbill(p, u) ==
  /\ Loaded(p)
  /\ IF loc[p] # NoBill
       THEN Return(p, "already_active")
       ELSE /\ nextOid <= MaxBills
            /\ db' = insert_one(db, new_bill_doc(nextOid, Chat, u, get_display_name(u)))
            /\ nextOid' = nextOid + 1
            /\ pc' = [pc EXCEPT ![p] = "idle"]
            /\ reply' = "new_bill"
            /\ UNCHANGED <<loc, pending, ops>>

\* /join with the already-a-member check left out
JoinBlocked_never(bill, u) == FALSE

\* uid in bill["members"], the guard of /join
JoinBlocked(bill, u) == IsMember(bill, u)

cmd_join(p, u) ==
  /\ Loaded(p)
  /\ LET bill == loc[p] IN
     IF bill = NoBill THEN Return(p, "no_active_bill")
     ELSE IF JoinBlocked(bill, u) THEN Return(p, "already_in")
     ELSE Commit(p, [bill EXCEPT
                       !.members = Append(@, [uid |-> u, name |-> get_display_name(u)])],
                 "joined")

\* /additem accepting a price of zero
PriceRejected_negative(r) == r = <<>> \/ (r[1] # NaN /\ r[1] < 0)

\* the try block of /additem: float() raised, or price <= 0
PriceRejected(r) == r = <<>> \/ FloatLe(r[1], 0)

\* name: the words before the last one ("" when the text is one word);
\* ptext: the last word
cmd_additem(p, name, ptext) ==
  /\ Loaded(p)
  /\ LET bill == loc[p]
         price == ParseFloat(ptext)
     IN IF bill = NoBill THEN Return(p, "no_active_bill")
        ELSE IF name = "" THEN Return(p, "need_name_price")
        ELSE IF PriceRejected(price) THEN Return(p, "invalid_price")
        ELSE /\ bill.next_item_id <= MaxItems
             /\ Commit(p, add_item(bill, name, price[1]), "added")

\* cmd_items, input:manual, fees:pickmode: they read the bill and only reply
cmd_items(p) == Loaded(p) /\ Return(p, "shown")

pick_claim(bill, k, u) ==
  [bill EXCEPT !.items[k].claimed_by =
     Append(@, [user_id |-> u, name |-> get_display_name(u)])]

\* any(str(c["user_id"]) == uid_str for c in item["claimed_by"])
PickBlocked(item, u) == HasClaim(item, u)

cmd_pick(p, u, item_id) ==
  /\ Loaded(p)
  /\ LET bill == loc[p]
         k == get_item(bill, item_id)
     IN IF bill = NoBill THEN Return(p, "no_active_bill")
        ELSE IF ~IsMember(bill, u) THEN Return(p, "need_join")
        ELSE IF k = 0 THEN Return(p, "item_not_found")
        ELSE IF PickBlocked(bill.items[k], u) THEN Return(p, "already_picked")
        ELSE Commit(p, pick_claim(bill, k, u), "picked")

unpick_claim(bill, k, u) ==
  [bill EXCEPT !.items[k].claimed_by = WithoutUser(@, u)]

cmd_unpick(p, u, item_id) ==
  /\ Loaded(p)
  /\ LET bill == loc[p]
         k == get_item(bill, item_id)
     IN IF bill = NoBill THEN Return(p, "no_active_bill")
        ELSE IF k = 0 THEN Return(p, "item_not_found")
        ELSE Commit(p, unpick_claim(bill, k, u), "unpicked")

\* /assign falling back to the first member when no name matches
assign_target_fallback(bill, h) ==
  LET hits == {k \in 1..Len(bill.members) :
                 Lower(bill.members[k].name) = Lower(AtHandle(h))}
  IN IF hits = {} THEN 1 ELSE CHOOSE k \in hits : \A j \in hits : k <= j

\* index in members of the first member whose display name matches @handle,
\* compared in lower case; 0 when nobody matches
assign_target(bill, h) ==
  LET hits == {k \in 1..Len(bill.members) :
                 Lower(bill.members[k].name) = Lower(AtHandle(h))}
  IN IF hits = {} THEN 0 ELSE CHOOSE k \in hits : \A j \in hits : k <= j

\* user.id != bill["creator_id"], the guard of /assign
MayAssign(bill, u) == u = bill.creator_id

assign_claim(bill, k, m) ==
  [bill EXCEPT !.items[k].claimed_by =
     Append(@, [user_id |-> bill.members[m].uid, name |-> bill.members[m].name])]

\* /assign with the already-claimed check left out
AssignBlocked_never(item, uid) == FALSE

\* any(str(c["user_id"]) == target_uid for c in item["claimed_by"])
AssignBlocked(item, uid) == HasClaim(item, uid)

cmd_assign(p, u, item_id, h) ==
  /\ Loaded(p)
  /\ LET bill == loc[p]
         k == get_item(bill, item_id)
         m == assign_target(bill, h)
     IN IF bill = NoBill THEN Return(p, "no_active_bill")
        ELSE IF ~MayAssign(bill, u) THEN Return(p, "only_creator_assign")
        ELSE IF k = 0 THEN Return(p, "item_not_found")
        ELSE IF m = 0 THEN Return(p, "not_joined")
        ELSE IF AssignBlocked(bill.items[k], bill.members[m].uid)
          THEN Return(p, "already_has")
        ELSE Commit(p, assign_claim(bill, k, m), "assigned")

reset_claims(bill, u) ==
  [bill EXCEPT !.items =
     [k \in 1..Len(bill.items) |->
        [bill.items[k] EXCEPT !.claimed_by = WithoutUser(@, u)]]]

\* count: the sum over the first k items of before - len(item["claimed_by"])
RECURSIVE reset_count(_, _, _)
reset_count(bill, u, k) ==
  IF k = 0 THEN 0
  ELSE reset_count(bill, u, k - 1)
         + Len(bill.items[k].claimed_by)
         - Len(WithoutUser(bill.items[k].claimed_by, u))

\* the answer of /resetpicks: the count when it is positive
reset_reply(count) ==
  IF count > 0 THEN "reset_" \o ToString(count) ELSE "no_picks"

cmd_resetpicks(p, u) ==
  /\ Loaded(p)
  /\ LET bill == loc[p] IN
     IF bill = NoBill THEN Return(p, "no_active_bill")
     ELSE Commit(p, reset_claims(bill, u),
                 reset_reply(reset_count(bill, u, Len(bill.items))))

\* the try block of /setfees: a float() raised, or sc < 0 or vat < 0
PctsRejected(sc, vat) == sc = <<>> \/ vat = <<>> \/ sc[1] < 0 \/ vat[1] < 0

\* sctext, vattext: the first and second word ("" for no second word: vat = 0);
\* mode: mode_map.get(flag), None for no flag or an unknown one
cmd_setfees(p, sctext, vattext, mode) ==
  /\ Loaded(p)
  /\ LET bill == loc[p]
         scr == ParseFloat(sctext)
         vatr == IF vattext = "" THEN <<0>> ELSE ParseFloat(vattext)
     IN IF bill = NoBill THEN Return(p, "no_active_bill")
        ELSE IF PctsRejected(scr, vatr) THEN Return(p, "usage")
        ELSE LET sc == scr[1]
                 vat == vatr[1]
             IN IF mode = None /\ (sc > 0 \/ vat > 0) THEN Return(p, "pick_mode")
                ELSE Commit(p, [bill EXCEPT
                                  !.service_charge_pct = <<sc>>,
                                  !.vat_pct = <<vat>>,
                                  !.fees_mode = IF sc > 0 \/ vat > 0 THEN mode ELSE None,
                                  !.awaiting_fees = FALSE],
                            "fees_set")

\* is_finalized set on the local copy, finalized_at left out
finalize_untimed(bill) == [bill EXCEPT !.is_finalized = TRUE]

\* is_finalized and finalized_at set on the local copy
finalize(bill) == [bill EXCEPT !.is_finalized = TRUE, !.finalized_at = "set"]

\* finalize with the empty-bill check left out
HasItems_always(bill) == TRUE

\* not bill["items"] is false
HasItems(bill) == Len(bill.items) > 0

cmd_done(p) ==
  /\ Loaded(p)
  /\ LET bill == loc[p] IN
     IF bill = NoBill THEN Return(p, "no_active_bill")
     ELSE IF ~HasItems(bill) THEN Return(p, "no_items")
     ELSE Commit(p, finalize(bill), "summary")

\* /cancel with the creator check left out
MayCancel_any(bill, u) == TRUE

\* user.id != bill["creator_id"], the guard of /cancel
MayCancel(bill, u) == u = bill.creator_id

cmd_cancel(p, u) ==
  /\ Loaded(p)
  /\ LET bill == loc[p] IN
     IF bill = NoBill THEN Return(p, "no_active_bill")
     ELSE IF ~MayCancel(bill, u) THEN Return(p, "only_creator_cancel")
     ELSE /\ db' = delete_one(db, bill.oid)
          /\ pc' = [pc EXCEPT ![p] = "idle"]
          /\ loc' = [loc EXCEPT ![p] = NoBill]
          /\ reply' = "cancelled"
          /\ UNCHANGED <<nextOid, pending, ops>>

\* callback_handler, data "currency:<c>"
cb_currency(p, u, c) ==
  /\ Loaded(p)
  /\ LET bill == loc[p] IN
     IF bill = NoBill THEN Return(p, "no_active_bill")
     ELSE IF u # bill.creator_id THEN Return(p, "only_creator_set")
     ELSE Commit(p, [bill EXCEPT !.currency = c], "currency_set")

\* callback_handler, data "rate:auto"; r = 0 is a lookup that returned nothing
cb_rate_auto(p, r) ==
  /\ Loaded(p)
  /\ LET bill == loc[p] IN
     IF bill = NoBill THEN Return(p, "no_active_bill")
     ELSE IF r # 0 THEN Commit(p, [bill EXCEPT !.jpy_to_thb_rate = <<r>>], "rate_set")
     ELSE Commit(p, [bill EXCEPT !.awaiting_manual_rate = TRUE], "enter_rate")

cb_rate_manual(p) ==
  /\ Loaded(p)
  /\ LET bill == loc[p] IN
     IF bill = NoBill THEN Return(p, "no_active_bill")
     ELSE Commit(p, [bill EXCEPT !.awaiting_manual_rate = TRUE], "enter_rate")

cb_input_photo(p) ==
  /\ Loaded(p)
  /\ LET bill == loc[p] IN
     IF bill = NoBill THEN Return(p, "no_active_bill")
     ELSE Commit(p, [bill EXCEPT !.awaiting_photo = TRUE], "send_photo")

cb_fees_confirm(p, sc, vat, mode) ==
  /\ Loaded(p)
  /\ LET bill == loc[p] IN
     IF bill = NoBill THEN Return(p, "no_active_bill")
     ELSE Commit(p, [bill EXCEPT
                       !.service_charge_pct = <<sc>>,
                       !.vat_pct = <<vat>>,
                       !.fees_mode = mode,
                       !.awaiting_fees = FALSE],
                 "fees_set")

cb_fees_edit(p) ==
  /\ Loaded(p)
  /\ LET bill == loc[p] IN
     IF bill = NoBill THEN Return(p, "no_active_bill")
     ELSE Commit(p, [bill EXCEPT !.awaiting_fees = TRUE], "enter_fees")

cb_fees_none(p) ==
  /\ Loaded(p)
  /\ LET bill == loc[p] IN
     IF bill = NoBill THEN Return(p, "no_active_bill")
     ELSE Commit(p, [bill EXCEPT
                       !.service_charge_pct = <<0>>,
                       !.vat_pct = <<0>>,
                       !.fees_mode = None,
                       !.awaiting_fees = FALSE],
                 "fees_set")

\* a pick button that always adds the claim
toggle_claim_append(bill, k, u) ==
  [bill EXCEPT !.items[k].claimed_by =
     Append(@, [user_id |-> u, name |-> get_display_name(u)])]

\* the pick button's change of the local copy: join if needed, then toggle
toggle_claim(bill, k, u) ==
  LET joined == IF IsMember(bill, u) THEN bill
                ELSE [bill EXCEPT !.members =
                        Append(@, [uid |-> u, name |-> get_display_name(u)])]
  IN IF HasClaim(bill.items[k], u)
       THEN [joined EXCEPT !.items[k].claimed_by = WithoutUser(@, u)]
       ELSE [joined EXCEPT !.items[k].claimed_by =
               Append(@, [user_id |-> u, name |-> get_display_name(u)])]

\* callback_handler, data "pick:<item_id>"
cb_pick(p, u, item_id) ==
  /\ Loaded(p)
  /\ LET bill == loc[p]
         k == get_item(bill, item_id)
     IN IF bill = NoBill THEN Return(p, "no_active_bill")
        ELSE IF k = 0 THEN Return(p, "item_not_found")
        ELSE Commit(p, toggle_claim(bill, k, u),
                    IF HasClaim(bill.items[k], u) THEN "toggled_off" ELSE "toggled_on")

\* callback_handler, data "finalize"
cb_finalize(p) ==
  /\ Loaded(p)
  /\ LET bill == loc[p] IN
     IF bill = NoBill THEN Return(p, "no_active_bill")
     ELSE IF ~HasItems(bill) THEN Return(p, "no_items")
     ELSE Commit(p, finalize(bill), "summary")

\* photo_handler up to its first await: awaiting_photo cleared and saved
photo_start(p) ==
  /\ Loaded(p)
  /\ LET bill == loc[p] IN
     IF bill = NoBill THEN Return(p, "ignored")
     ELSE /\ loc' = [loc EXCEPT ![p] = [bill EXCEPT !.awaiting_photo = FALSE]]
          /\ db' = save_bill(db, loc'[p])
          /\ pc' = [pc EXCEPT ![p] = "photo_ocr"]
          /\ reply' = "reading"
          /\ UNCHANGED <<nextOid, pending, ops>>

\* sequences of at most n (name, price) pairs the extractor keeps
OcrItems(n) ==
  UNION {[1..k -> [name : Names, price : OcrPrices]] : k \in 0..n}

\* the entries of the extractor's JSON: a name that may be empty, a price that
\* may be zero or not a number
OcrRawPrices == OcrPrices \cup {0, NaN}
OcrRaw(n) ==
  UNION {[1..k -> [name : NameArgs, price : OcrRawPrices]] : k \in 0..n}

\* the entries parse_receipt_ocr keeps: if name and price > 0
parse_items(raw) ==
  LET Keep(e) == e.name # "" /\ FloatGt(e.price, 0)
  IN SelectSeq(raw, Keep)

\* parse_receipt_ocr returns: nothing extracted ends the handler
photo_ocr(p, items) ==
  /\ pc[p] = "photo_ocr"
  /\ IF items = <<>>
       THEN Return(p, "extract_failed")
       ELSE /\ pending' = [pending EXCEPT ![p] = items]
            /\ pc' = [pc EXCEPT ![p] = "photo_items"]
            /\ UNCHANGED <<db, nextOid, loc, ops, reply>>

\* one round of the loop over the extracted items: add_item_to_bill and its save
photo_add_item(p) ==
  /\ pc[p] = "photo_items"
  /\ pending[p] # <<>>
  /\ loc[p].next_item_id <= MaxItems
  /\ loc' = [loc EXCEPT ![p] = add_item(@, Head(pending[p]).name, Head(pending[p]).price)]
  /\ db' = save_bill(db, loc'[p])
  /\ pending' = [pending EXCEPT ![p] = Tail(@)]
  /\ UNCHANGED <<nextOid, pc, ops, reply>>

\* what the extractor's JSON may carry for service_charge_pct and vat_pct
\* (null, zero, a percentage, a negative number) and for fees_mode (null, one of
\* the three modes, another string): parse_receipt_ocr passes them on as read
OcrPcts == {<<>>, <<0>>, <<10>>, <<-100>>}
OcrModes == Modes \cup {None, "vat_only"}

\* the branches that send the confirm keyboard: something detected, or a THB bill
proposes_fees(bill, detected_sc, detected_vat) ==
  detected_sc # <<>> \/ detected_vat # <<>> \/ bill.currency = "THB"

\* after the loop: the save before the fee keyboard is sent; the bill is stored
\* as the loop left it in each of the three branches
photo_finish(p, detected_sc, detected_vat) ==
  /\ pc[p] = "photo_items"
  /\ pending[p] = <<>>
  /\ Commit(p, loc[p],
            IF proposes_fees(loc[p], detected_sc, detected_vat)
              THEN "fees_proposed" ELSE "fees_asked")

\* the try block of text_handler: float() raised, or rate <= 0
RateRejected(r) == r = <<>> \/ r[1] <= 0

\* text_handler; text is the message with blanks and commas removed
text_handler(p, text) ==
  /\ Loaded(p)
  /\ LET bill == loc[p]
         rate == ParseFloat(text)
     IN IF bill = NoBill \/ ~bill.awaiting_manual_rate THEN Return(p, "ignored")
        ELSE IF RateRejected(rate) THEN Return(p, "invalid_rate")
        ELSE Commit(p, [bill EXCEPT !.jpy_to_thb_rate = <<rate[1]>>,
                                    !.awaiting_manual_rate = FALSE],
                    "rate_set")

\* ------------------------------------------------------------- fee engine
\* The amounts are Python floats.  They are modelled as exact fractions
\* <<numerator, denominator>> in lowest terms with a positive denominator, so
\* the figures are the ones the float computation approximates to within its
\* rounding.  A division by zero raises ZeroDivisionError in Python: it is the
\* value ZeroDivision, and every operation on it yields it again, as the
\* exception leaves the computation.
RECURSIVE GCD(_, _)
GCD(a, b) == IF b = 0 THEN a ELSE GCD(b, a % b)

ZeroDivision == <<0, 0>>

Frac(n, d) ==
  IF d = 0 THEN ZeroDivision
  ELSE LET sg == IF d < 0 THEN -1 ELSE 1
           g == GCD(IF n < 0 THEN -n ELSE n, IF d < 0 THEN -d ELSE d)
       IN <<(sg * n) \div g, (sg * d) \div g>>

Num(i) == <<i, 1>>

FAdd(a, b) ==
  IF a[2] = 0 \/ b[2] = 0 THEN ZeroDivision
  ELSE LET g == GCD(a[2], b[2])
       IN Frac(a[1] * (b[2] \div g) + b[1] * (a[2] \div g),
               (a[2] \div g) * b[2])

FSub(a, b) == FAdd(a, <<-b[1], b[2]>>)

FMul(a, b) == Frac(a[1] * b[1], a[2] * b[2])

FDiv(a, b) ==
  IF a[2] = 0 \/ b[2] = 0 THEN ZeroDivision
  ELSE Frac(a[1] * b[2], a[2] * b[1])

\* per-person share without the division by the number of claimants
item_per_person_full(item) == Num(item.price)

item_per_person(item) ==
  LET n == Len(item.claimed_by)
  IN IF n > 0 THEN FDiv(Num(item.price), Num(n)) ELSE Num(item.price)

\* the loop of person_total over the first k items
RECURSIVE PersonSum(_, _, _)
PersonSum(bill, u, k) ==
  IF k = 0 THEN Num(0)
  ELSE FAdd(PersonSum(bill, u, k - 1),
            IF HasClaim(bill.items[k], u) THEN item_per_person(bill.items[k])
            ELSE Num(0))

person_total(bill, u) == PersonSum(bill, u, Len(bill.items))

RECURSIVE PriceSum(_, _)
PriceSum(items, k) == IF k = 0 THEN 0 ELSE PriceSum(items, k - 1) + items[k].price

bill_total(bill) == Num(PriceSum(bill.items, Len(bill.items)))

\* bill.get("service_charge_pct") or 0, bill.get("vat_pct") or 0
OrZero(opt) == IF opt = <<>> THEN 0 ELSE opt[1]

\* (1 + pct / 100)
OnePlusPct(pct) == FAdd(Num(1), FDiv(Num(pct), Num(100)))

\* a grand total that adds the fees on top in every mode
bill_grand_total_ontop(bill) ==
  FMul(FMul(bill_total(bill), OnePlusPct(OrZero(bill.service_charge_pct))),
       OnePlusPct(OrZero(bill.vat_pct)))

bill_grand_total(bill) ==
  LET subtotal == bill_total(bill)
      sc_pct == OrZero(bill.service_charge_pct)
      vat_pct == OrZero(bill.vat_pct)
      mode == bill.fees_mode
  IN IF mode = "both_inclusive" THEN subtotal
     ELSE IF mode = "sc_exclusive_vat_inclusive"
       THEN FMul(subtotal, OnePlusPct(sc_pct))
     ELSE IF mode = "both_exclusive"
       THEN FMul(FMul(subtotal, OnePlusPct(sc_pct)), OnePlusPct(vat_pct))
     ELSE subtotal

\* a back-calculation that divides by 1 + (sc + vat) / 100
inclusive_base_additive(p_sub, sc_pct, vat_pct) ==
  FDiv(p_sub, OnePlusPct(sc_pct + vat_pct))

\* base = p_sub / divisor if divisor else p_sub
inclusive_base(p_sub, sc_pct, vat_pct) ==
  LET divisor == FMul(OnePlusPct(sc_pct), OnePlusPct(vat_pct))
  IN IF divisor # Num(0) THEN FDiv(p_sub, divisor) ELSE p_sub

\* VAT taken on the items only, not on the service charge
exclusive_vat_flat(p_sub, sc_amt, vat_pct) ==
  FDiv(FMul(p_sub, Num(vat_pct)), Num(100))

\* vat_amt = (p_sub + sc_amt) * vat_pct / 100
exclusive_vat(p_sub, sc_amt, vat_pct) ==
  FDiv(FMul(FAdd(p_sub, sc_amt), Num(vat_pct)), Num(100))

\* the amount before VAT with the VAT counted as a share of the total
before_vat_share(total, vat_pct) ==
  FMul(total, FSub(Num(1), FDiv(Num(vat_pct), Num(100))))

\* the amount before VAT of a total that includes it
before_vat(total, vat_pct) ==
  IF vat_pct # 0 THEN FDiv(total, OnePlusPct(vat_pct)) ELSE total

\* the mode branches of person_fee_breakdown on an item subtotal p_sub:
\* <<p_sub, sc_amt, vat_amt, total>>
fee_breakdown(bill, p_sub) ==
  LET sc_pct == OrZero(bill.service_charge_pct)
      vat_pct == OrZero(bill.vat_pct)
      mode == bill.fees_mode
  IN IF mode = "both_inclusive" THEN
       LET base == inclusive_base(p_sub, sc_pct, vat_pct)
           sc_amt == FDiv(FMul(base, Num(sc_pct)), Num(100))
           vat_amt == FDiv(FMul(FAdd(base, sc_amt), Num(vat_pct)), Num(100))
       IN <<p_sub, sc_amt, vat_amt, p_sub>>
     ELSE IF mode = "sc_exclusive_vat_inclusive" THEN
       LET total == FMul(p_sub, OnePlusPct(sc_pct))
           sc_amt == FDiv(FMul(p_sub, Num(sc_pct)), Num(100))
           vat_amt == FSub(total, before_vat(total, vat_pct))
       IN <<p_sub, sc_amt, vat_amt, total>>
     ELSE IF mode = "both_exclusive" THEN
       LET sc_amt == FDiv(FMul(p_sub, Num(sc_pct)), Num(100))
           vat_amt == exclusive_vat(p_sub, sc_amt, vat_pct)
           total == FAdd(FAdd(p_sub, sc_amt), vat_amt)
       IN <<p_sub, sc_amt, vat_amt, total>>
     ELSE <<p_sub, Num(0), Num(0), p_sub>>

person_fee_breakdown(bill, u) ==
  IF bill_total(bill) = Num(0) THEN <<Num(0), Num(0), Num(0), Num(0)>>
  ELSE fee_breakdown(bill, person_total(bill, u))

\* the grand total divided among the members in equal parts
person_grand_total_equal(bill, u) ==
  IF bill_total(bill) = Num(0) THEN Num(0)
  ELSE FDiv(bill_grand_total(bill), Num(Len(bill.members)))

\* a member's share of the grand total in proportion to the item subtotals
person_grand_total(bill, u) ==
  LET subtotal == bill_total(bill)
  IN IF subtotal = Num(0) THEN Num(0)
     ELSE FMul(bill_grand_total(bill), FDiv(person_total(bill, u), subtotal))

\* the stored bills the engine is applied to: the creator alone or with a
\* second member, up to MaxItems items each claimed by any of the members in
\* any order, and the fee fields as the fee handlers leave them
EngineMembers ==
  { <<[uid |-> 1, name |-> get_display_name(1)]>>,
    <<[uid |-> 1, name |-> get_display_name(1)],
      [uid |-> 2, name |-> get_display_name(2)]>> }

ClaimLists(members) ==
  LET cl(u) == [user_id |-> u, name |-> get_display_name(u)]
      U == {members[k].uid : k \in 1..Len(members)}
  IN {<<>>} \cup {<<cl(u)>> : u \in U}
       \cup {<<cl(w[1]), cl(w[2])>> : w \in {x \in U \X U : x[1] # x[2]}}

EngineItems(members) ==
  UNION { { [k \in 1..n |-> [id |-> k, name |-> "A", price |-> f[k].price,
                             claimed_by |-> f[k].claimed_by]] :
              f \in [1..n -> [price : Prices, claimed_by : ClaimLists(members)]] } :
          n \in 0..MaxItems }

ScPcts == {0, 10}
VatPcts == {0, 7}

EngineFees ==
  {[sc |-> <<>>, vat |-> <<>>, mode |-> None]}
    \cup {[sc |-> <<0>>, vat |-> <<0>>, mode |-> None]}
    \cup [sc : {<<x>> : x \in ScPcts}, vat : {<<x>> : x \in VatPcts}, mode : Modes]

EngineBills ==
  UNION { { [new_bill_doc(1, Chat, 1, get_display_name(1)) EXCEPT
               !.currency = "THB",
               !.members = ms,
               !.items = its,
               !.next_item_id = Len(its) + 1,
               !.service_charge_pct = fc.sc,
               !.vat_pct = fc.vat,
               !.fees_mode = fc.mode] :
              its \in EngineItems(ms), fc \in EngineFees } :
          ms \in EngineMembers }

\* the lifecycle, item and claim handlers
Next ==
  \E p \in Procs :
    \/ Load(p)
    \/ \E u \in Users : cmd_newbill(p, u)
    \/ \E u \in Users : cmd_join(p, u)
    \/ \E n \in NameArgs, t \in PriceTexts : cmd_additem(p, n, t)
    \/ \E u \in Users, i \in ItemIds : cmd_pick(p, u, i)
    \/ \E u \in Users, i \in ItemIds : cmd_unpick(p, u, i)
    \/ \E u \in Users, i \in ItemIds, h \in Handles : cmd_assign(p, u, i, h)
    \/ \E u \in Users : cmd_resetpicks(p, u)
    \/ cmd_done(p)
    \/ \E u \in Users : cmd_cancel(p, u)
    \/ \E u \in Users, c \in Currencies : cb_currency(p, u, c)
    \/ \E u \in Users, i \in ItemIds : cb_pick(p, u, i)
    \/ cb_finalize(p)
    \/ photo_start(p)
    \/ \E its \in OcrItems(MaxOcrItems) : photo_ocr(p, its)
    \/ photo_add_item(p)
    \/ \E sc \in OcrPcts, vat \in OcrPcts : photo_finish(p, sc, vat)

Spec == Init /\ [][Next]_vars

\* the setup handlers: currency, rate, fees, input method and joining, on top
\* of bill creation
NextFees ==
  \E p \in Procs :
    \/ Load(p)
    \/ \E u \in Users : cmd_newbill(p, u)
    \/ \E u \in Users : cmd_join(p, u)
    \/ cmd_items(p)
    \/ \E u \in Users, c \in Currencies : cb_currency(p, u, c)
    \/ \E sc \in PctTexts, vat \in VatTexts, m \in Modes \cup {None} :
         cmd_setfees(p, sc, vat, m)
    \/ \E r \in Rates \cup {0} : cb_rate_auto(p, r)
    \/ cb_rate_manual(p)
    \/ cb_input_photo(p)
    \/ \E sc \in Pcts, vat \in Pcts, m \in Modes : cb_fees_confirm(p, sc, vat, m)
    \/ cb_fees_edit(p)
    \/ cb_fees_none(p)
    \/ \E t \in RateTexts : text_handler(p, t)

SpecFees == Init /\ [][NextFees]_vars

\* the handlers that add, take, give and drop claims, on top of bill creation,
\* joining and typed items
NextClaims ==
  \E p \in Procs :
    \/ Load(p)
    \/ \E u \in Users : cmd_newbill(p, u)
    \/ \E u \in Users : cmd_join(p, u)
    \/ \E n \in NameArgs, t \in PriceTexts : cmd_additem(p, n, t)
    \/ \E u \in Users, i \in ItemIds : cmd_pick(p, u, i)
    \/ \E u \in Users, i \in ItemIds : cmd_unpick(p, u, i)
    \/ \E u \in Users, i \in ItemIds, h \in Handles : cmd_assign(p, u, i, h)
    \/ \E u \in Users : cmd_resetpicks(p, u)
    \/ \E u \in Users, i \in ItemIds : cb_pick(p, u, i)

SpecClaims == Init /\ [][NextClaims]_vars

\* the handlers that read typed text: item, fees and manual rate
NextInput ==
  \E p \in Procs :
    \/ Load(p)
    \/ \E u \in Users : cmd_newbill(p, u)
    \/ \E n \in NameArgs, t \in PriceTexts : cmd_additem(p, n, t)
    \/ \E sc \in PctTexts, vat \in VatTexts, m \in Modes \cup {None} :
         cmd_setfees(p, sc, vat, m)
    \/ cb_rate_manual(p)
    \/ \E t \in RateTexts : text_handler(p, t)

SpecInput == Init /\ [][NextInput]_vars

\* the fees the confirm button of a processed receipt carries: the detected
\* ones, or the suggestion for a THB bill when nothing was detected
detected_fees(detected_sc, detected_vat, ocr_mode) ==
  LET fees_mode == IF ocr_mode \in Modes THEN ocr_mode ELSE None
  IN IF detected_sc # <<>> \/ detected_vat # <<>> THEN
       [sc |-> OrZero(detected_sc),
        vat |-> OrZero(detected_vat),
        mode |-> IF fees_mode # None THEN fees_mode ELSE "both_inclusive"]
     ELSE [sc |-> 10, vat |-> 7, mode |-> "both_inclusive"]

ConfirmButtons ==
  {detected_fees(sc, vat, m) : sc \in OcrPcts, vat \in OcrPcts, m \in OcrModes}

\* the fee handlers on a bill with items, the confirm button carrying what a
\* processed receipt put into it
NextOcrFees ==
  \E p \in Procs :
    \/ Load(p)
    \/ \E u \in Users : cmd_newbill(p, u)
    \/ \E n \in Names, t \in PriceTexts : cmd_additem(p, n, t)
    \/ \E sc \in PctTexts, vat \in VatTexts, m \in Modes \cup {None} :
         cmd_setfees(p, sc, vat, m)
    \/ \E f \in ConfirmButtons : cb_fees_confirm(p, f.sc, f.vat, f.mode)
    \/ cb_fees_none(p)

SpecOcrFees == Init /\ [][NextOcrFees]_vars

\* the stored bills the unclaim handlers are applied to: the items and claims
\* of EngineBills on a THB bill with fees of 10% and 7% on top
ClaimedBills ==
  {b \in EngineBills :
     /\ b.fees_mode = "both_exclusive"
     /\ b.service_charge_pct = <<10>> /\ b.vat_pct = <<7>>}

InitUnclaim ==
  /\ \E bill \in ClaimedBills : db = [o \in {1} |-> bill]
  /\ nextOid = 2
  /\ pc = [p \in Procs |-> "idle"]
  /\ loc = [p \in Procs |-> NoBill]
  /\ pending = [p \in Procs |-> <<>>]
  /\ ops = 0
  /\ reply = "none"

\* /unpick and /resetpicks, one handler at a time
NextUnclaim ==
  \/ Load("h1")
  \/ \E u \in Users, i \in ItemIds : cmd_unpick("h1", u, i)
  \/ \E u \in Users : cmd_resetpicks("h1", u)

SpecUnclaim == InitUnclaim /\ [][NextUnclaim]_vars

\* the texts /additem may be given as a price, "nan" among them
AdditemTexts == PriceTexts \cup {"nan"}

\* the handlers that add items, typed or read from a receipt photo
NextPhoto ==
  \E p \in Procs :
    \/ Load(p)
    \/ \E u \in Users : cmd_newbill(p, u)
    \/ \E n \in Names, t \in AdditemTexts : cmd_additem(p, n, t)
    \/ cb_input_photo(p)
    \/ photo_start(p)
    \/ \E raw \in OcrRaw(MaxOcrItems) : photo_ocr(p, parse_items(raw))
    \/ photo_add_item(p)
    \/ \E sc \in OcrPcts, vat \in OcrPcts : photo_finish(p, sc, vat)

SpecPhoto == Init /\ [][NextPhoto]_vars

\* the handler that prints the totals, on a stored bill of EngineBills:
\* /done (format_summary)
InitEngine ==
  /\ \E bill \in EngineBills : db = [o \in {1} |-> bill]
  /\ nextOid = 2
  /\ pc = [p \in Procs |-> "idle"]
  /\ loc = [p \in Procs |-> NoBill]
  /\ pending = [p \in Procs |-> <<>>]
  /\ ops = 0
  /\ reply = "none"

\* one handler at a time: the figures depend on the stored bill only
NextEngine ==
  \/ Load("h1")
  \/ cmd_done("h1")

SpecEngine == InitEngine /\ [][NextEngine]_vars

\* the same stored bills with the summary asked for by the finalize button
NextEngineButton ==
  \/ Load("h1")
  \/ cb_finalize("h1")

SpecEngineButton == InitEngine /\ [][NextEngineButton]_vars

\* ---------------------------------------------------------------- claims
\* the user ids claiming the item numbered id in a bill copy
ClaimSet(bill, id) ==
  LET k == get_item(bill, id)
  IN IF k = 0 THEN {}
     ELSE {bill.items[k].claimed_by[j].user_id : j \in 1..Len(bill.items[k].claimed_by)}

\* C1: in every reachable state the chat has at most one stored session with
\* is_finalized = False.
C1_OneActivePerChat == Cardinality(ActiveBills(Chat)) <= 1

\* C2: no lost update: a step in which a member's pick is stored (/pick or the
\* pick button adding a claim) keeps, on every item of that document, every
\* claim that was stored before the step.
C2_NoLostUpdate ==
  [][\A p \in Procs, u \in Users, i \in ItemIds :
       ((cmd_pick(p, u, i) \/ cb_pick(p, u, i)) /\ reply' \in {"picked", "toggled_on"})
         => \A o \in DOMAIN db, id \in ItemIds :
              ClaimSet(db[o], id) \subseteq ClaimSet(db'[o], id)]_vars

\* C3: finalized is terminal: no step changes or removes a stored session whose
\* is_finalized is True.
C3_FinalizedTerminal ==
  [][\A o \in DOMAIN db :
       db[o].is_finalized => (o \in DOMAIN db' /\ db'[o] = db[o])]_vars

\* C4: a creator-only action by a user who is not the creator of the session
\* the handler holds is rejected and changes nothing stored: /cancel deletes
\* no document and /assign adds no claim.
C4_NonCreatorRejected ==
  [][\A p \in Procs, u \in Users :
       (loc[p] # NoBill /\ u # loc[p].creator_id) =>
         /\ cmd_cancel(p, u) => (db' = db /\ reply' = "only_creator_cancel")
         /\ \A i \in ItemIds, h \in Handles :
              cmd_assign(p, u, i, h) => (db' = db /\ reply' = "only_creator_assign")]_vars

\* a non-creator's /cancel was just rejected and the session is still stored
C4_Witness ==
  /\ reply = "only_creator_cancel"
  /\ \E b \in ActiveBills(Chat) : \E u \in Users : IsMember(b, u) /\ u # b.creator_id

\* C5: a cancelled session is gone for good (no later save re-creates it), and
\* a finalized session is never deleted.
C5_CancelledGoneFinalizedKept ==
  [][/\ \A o \in 1..(nextOid - 1) : o \notin DOMAIN db => o \notin DOMAIN db'
     /\ \A o \in DOMAIN db : db[o].is_finalized => o \in DOMAIN db']_vars

\* C6: finalize (/done or the button) on a copy with zero items is refused and
\* changes nothing stored; every stored finalized session has at least one item.
C6_EmptyBillNotFinalized ==
  [][/\ \A p \in Procs :
          (loc[p] # NoBill /\ Len(loc[p].items) = 0 /\ (cmd_done(p) \/ cb_finalize(p)))
            => (db' = db /\ reply' = "no_items")
     /\ \A o \in DOMAIN db' : db'[o].is_finalized => Len(db'[o].items) >= 1]_vars

\* finalize was just refused on a stored session that has no item
C6_Witness ==
  /\ reply = "no_items"
  /\ \E b \in ActiveBills(Chat) : Len(b.items) = 0

\* C7: a currency selection handled with no other update in between never
\* changes a currency that is already set.
C7_CurrencyImmutable ==
  [][\A p \in Procs, u \in Users, c \in Currencies :
       (/\ cb_currency(p, u, c)
        /\ loc[p] # NoBill
        /\ loc[p].oid \in DOMAIN db
        /\ db[loc[p].oid] = loc[p]
        /\ loc[p].currency # None)
         => db'[loc[p].oid].currency = loc[p].currency]_vars

\* ids of a bill copy: each >= 1, strictly increasing in list order, all below
\* next_item_id
ItemIdsOk(bill) ==
  \A k \in 1..Len(bill.items) :
    /\ bill.items[k].id >= 1
    /\ bill.items[k].id < bill.next_item_id
    /\ k > 1 => bill.items[k - 1].id < bill.items[k].id

\* C8: item ids of every stored session are distinct, >= 1 and increasing, and
\* next_item_id stays above every id ever assigned: it is above the ids in the
\* list and never decreases.
C8_ItemIdsNeverReused ==
  [][/\ \A o \in DOMAIN db' : ItemIdsOk(db'[o])
     /\ \A o \in DOMAIN db \cap DOMAIN db' :
          db'[o].next_item_id >= db[o].next_item_id]_vars

\* C9: no stored item's claim list holds two claims with the same user id.
C9_ClaimsDistinct ==
  \A o \in DOMAIN db : \A k \in 1..Len(db[o].items) :
    LET cl == db[o].items[k].claimed_by
    IN \A a, b \in 1..Len(cl) : cl[a].user_id = cl[b].user_id => a = b

\* an item shared by two members, and a pick or assign just refused as a repeat
C9_Witness ==
  /\ reply \in {"already_picked", "already_has"}
  /\ \E o \in DOMAIN db : \E k \in 1..Len(db[o].items) :
       Len(db[o].items[k].claimed_by) >= 1

\* C10: on every stored session, the pick button pressed twice by the same user
\* on the same item leaves every item's set of claiming user ids as it was.
C10_ToggleTwice ==
  \A o \in DOMAIN db : \A i \in ItemIds, u \in Users :
    LET b == db[o]
        k == get_item(b, i)
    IN k # 0 =>
         LET b1 == toggle_claim(b, k, u)
             b2 == toggle_claim(b1, get_item(b1, i), u)
         IN \A id \in ItemIds : ClaimSet(b2, id) = ClaimSet(b, id)

\* a member who joined through the pick button has pressed it again: the claim
\* is off again and the item is back to no claim
C10_Witness ==
  /\ reply = "toggled_off"
  /\ \E o \in DOMAIN db : \E k \in 1..Len(db[o].items), u \in Users :
       /\ u # db[o].creator_id
       /\ IsMember(db[o], u)
       /\ db[o].items[k].claimed_by = <<>>

\* C11: /assign by the creator naming a member who already holds a claim on
\* the item is refused and changes nothing stored (no toggle); an /assign that
\* is stored keeps every claim of the copy it worked on.
C11_AssignAlreadyClaimed ==
  [][\A p \in Procs, u \in Users, i \in ItemIds, h \in Handles :
       (/\ pc[p] = "loaded" /\ loc[p] # NoBill /\ u = loc[p].creator_id
        /\ cmd_assign(p, u, i, h)) =>
         LET bill == loc[p]
             named == {m \in 1..Len(bill.members) :
                         Lower(bill.members[m].name) = Lower(AtHandle(h))}
         IN /\ (\E m \in named : bill.members[m].uid \in ClaimSet(bill, i))
                 => (db' = db /\ reply' = "already_has")
            /\ (reply' = "assigned" /\ bill.oid \in DOMAIN db')
                 => \A id \in ItemIds :
                      ClaimSet(bill, id) \subseteq ClaimSet(db'[bill.oid], id)]_vars

\* the creator's /assign was just refused for a member who holds the only
\* claim on a stored item
C11_Witness ==
  /\ reply = "already_has"
  /\ \E b \in ActiveBills(Chat) : \E k \in 1..Len(b.items) :
       /\ Len(b.items[k].claimed_by) = 1
       /\ IsMember(b, b.items[k].claimed_by[1].user_id)

\* C12: /assign with a handle that matches no member's display name changes
\* nothing stored, and is answered "hasn't joined" once the creator and item
\* checks have passed; a stored /assign leaves members as they were and adds
\* claims for members only.
C12_AssignNotJoined ==
  [][\A p \in Procs, u \in Users, i \in ItemIds, h \in Handles :
       (pc[p] = "loaded" /\ loc[p] # NoBill /\ cmd_assign(p, u, i, h)) =>
         LET bill == loc[p]
             named == {m \in 1..Len(bill.members) :
                         Lower(bill.members[m].name) = Lower(AtHandle(h))}
         IN /\ named = {} =>
                 /\ db' = db
                 /\ (u = bill.creator_id /\ get_item(bill, i) # 0)
                      => reply' = "not_joined"
            /\ (reply' = "assigned" /\ bill.oid \in DOMAIN db') =>
                 /\ db'[bill.oid].members = bill.members
                 /\ \A id \in ItemIds :
                      \A x \in ClaimSet(db'[bill.oid], id) \ ClaimSet(bill, id) :
                        IsMember(bill, x)]_vars

\* /assign was just refused for a handle nobody joined under, on a stored
\* session that has an item
C12_Witness ==
  /\ reply = "not_joined"
  /\ \E b \in ActiveBills(Chat) : Len(b.items) >= 1

\* C13: /join on any active session copy, whatever its currency, rate, fee and
\* awaiting fields: by a user not in members it stores the copy with exactly
\* that user appended to members and every other field as it was; by a member
\* it changes nothing stored.
C13_JoinIdempotent ==
  [][\A p \in Procs, u \in Users :
       (pc[p] = "loaded" /\ loc[p] # NoBill /\ cmd_join(p, u)) =>
         IF IsMember(loc[p], u)
           THEN db' = db /\ reply' = "already_in"
           ELSE /\ reply' = "joined"
                /\ \A o \in DOMAIN db' :
                     IF o = loc[p].oid
                       THEN /\ db'[o].members =
                                 Append(loc[p].members,
                                        [uid |-> u, name |-> get_display_name(u)])
                            /\ [db'[o] EXCEPT !.members = loc[p].members] = loc[p]
                       ELSE db'[o] = db[o]
                /\ DOMAIN db' = DOMAIN db]_vars

\* a user joined a session that was waiting for a typed rate, and then sent
\* /join again
C13_Witness ==
  /\ reply = "already_in"
  /\ \E b \in ActiveBills(Chat) :
       /\ Len(b.members) = 2
       /\ b.awaiting_manual_rate

\* C14: every stored session whose service charge and VAT percents are both
\* zero has fees_mode unset.
C14_ZeroFeesModeUnset ==
  \A o \in DOMAIN db :
    (db[o].service_charge_pct = <<0>> /\ db[o].vat_pct = <<0>>)
      => db[o].fees_mode = None

\* the texts ParseFloat must reject as a price or a rate, and as a percentage
InvalidAmountTexts == {"0", "-5", "abc"}
InvalidPctTexts == {"-1", "abc"}

\* C15: /additem with no name or with a price text that is no number above
\* zero, /setfees with a percentage text that is no number or is negative,
\* and a manual-rate text that is no number above zero, change nothing stored.
C15_InvalidInputNoChange ==
  [][\A p \in Procs :
       (pc[p] = "loaded" /\ db' # db) =>
         /\ \A n \in NameArgs, t \in PriceTexts :
              (n = "" \/ t \in InvalidAmountTexts) => ~cmd_additem(p, n, t)
         /\ \A sc \in PctTexts, vat \in VatTexts, m \in Modes \cup {None} :
              (sc \in InvalidPctTexts \/ vat \in InvalidPctTexts)
                => ~cmd_setfees(p, sc, vat, m)
         /\ \A t \in RateTexts :
              t \in InvalidAmountTexts => ~text_handler(p, t)]_vars

\* an invalid price was just refused on a stored session that holds an item
\* and awaits a typed rate
C15_Witness ==
  /\ reply = "invalid_price"
  /\ \E b \in ActiveBills(Chat) : Len(b.items) = 1 /\ b.awaiting_manual_rate

\* the members of a bill who hold at least one claim, by index in members
HoldsClaim(bill, u) == \E k \in 1..Len(bill.items) : HasClaim(bill.items[k], u)

\* sum of person_fee_breakdown(m).total over the first k members, those with
\* no claim left out
RECURSIVE SumPayable(_, _)
SumPayable(bill, k) ==
  IF k = 0 THEN Num(0)
  ELSE FAdd(SumPayable(bill, k - 1),
            IF HoldsClaim(bill, bill.members[k].uid)
              THEN person_fee_breakdown(bill, bill.members[k].uid)[4]
              ELSE Num(0))

\* the zero-claim items among the first k: their payable under the mode formula
RECURSIVE SumUnclaimedFees(_, _)
SumUnclaimedFees(bill, k) ==
  IF k = 0 THEN Num(0)
  ELSE FAdd(SumUnclaimedFees(bill, k - 1),
            IF bill.items[k].claimed_by = <<>>
              THEN fee_breakdown(bill, Num(bill.items[k].price))[4]
              ELSE Num(0))

\* the zero-claim items among the first k: their prices as listed
RECURSIVE SumUnclaimedRaw(_, _)
SumUnclaimedRaw(bill, k) ==
  IF k = 0 THEN Num(0)
  ELSE FAdd(SumUnclaimedRaw(bill, k - 1),
            IF bill.items[k].claimed_by = <<>> THEN Num(bill.items[k].price)
            ELSE Num(0))

\* C16: conservation with fee-applied unclaimed items: on every stored bill,
\* in each fee mode and with fees unset, the totals of the members who hold a
\* claim plus the mode formula applied to the full price of every unclaimed
\* item add up to bill_grand_total.
C16_ConservationFeeApplied ==
  \A o \in DOMAIN db :
    FAdd(SumPayable(db[o], Len(db[o].members)),
         SumUnclaimedFees(db[o], Len(db[o].items)))
      = bill_grand_total(db[o])

\* a stored both_exclusive bill at 10% and 7% with an item shared by two
\* members and an unclaimed item, its summary just printed
C16_Witness ==
  /\ reply = "summary"
  /\ \E o \in DOMAIN db :
       /\ db[o].fees_mode = "both_exclusive"
       /\ db[o].service_charge_pct = <<10>> /\ db[o].vat_pct = <<7>>
       /\ \E k, j \in 1..Len(db[o].items) :
            /\ Len(db[o].items[k].claimed_by) = 2
            /\ db[o].items[j].claimed_by = <<>>

\* C17: conservation with raw-price unclaimed items: on every stored bill the
\* totals of the members who hold a claim plus the raw prices of the
\* unclaimed items add up to bill_grand_total.
C17_ConservationRawUnclaimed ==
  \A o \in DOMAIN db :
    FAdd(SumPayable(db[o], Len(db[o].members)),
         SumUnclaimedRaw(db[o], Len(db[o].items)))
      = bill_grand_total(db[o])

\* the fee mode puts nothing on top of an item price: fees unset, everything
\* included, or the percentages the mode adds are zero
NothingOnTop(bill) ==
  \/ bill.fees_mode \notin {"sc_exclusive_vat_inclusive", "both_exclusive"}
  \/ /\ bill.fees_mode = "sc_exclusive_vat_inclusive"
     /\ OrZero(bill.service_charge_pct) = 0
  \/ /\ bill.fees_mode = "both_exclusive"
     /\ OrZero(bill.service_charge_pct) = 0
     /\ OrZero(bill.vat_pct) = 0

\* C17 as amended: on every stored bill the members' totals plus the raw
\* prices of the unclaimed items equal bill_grand_total when no item is
\* unclaimed or the fee mode puts nothing on top of the prices, and are below
\* bill_grand_total otherwise.
C17_RawUnclaimedAmended ==
  \A o \in DOMAIN db :
    LET raw == FAdd(SumPayable(db[o], Len(db[o].members)),
                    SumUnclaimedRaw(db[o], Len(db[o].items)))
        grand == bill_grand_total(db[o])
        unclaimed == \E k \in 1..Len(db[o].items) : db[o].items[k].claimed_by = <<>>
    IN IF ~unclaimed \/ NothingOnTop(db[o])
         THEN raw = grand
         ELSE raw[1] * grand[2] < grand[1] * raw[2]

\* a stored both_exclusive bill at 10% and 7% with one item claimed and one
\* unclaimed, its summary just printed
C17_Witness ==
  /\ reply = "summary"
  /\ \E o \in DOMAIN db :
       /\ db[o].fees_mode = "both_exclusive"
       /\ db[o].service_charge_pct = <<10>> /\ db[o].vat_pct = <<7>>
       /\ Len(db[o].items) = 2
       /\ Len(db[o].items[1].claimed_by) = 1
       /\ db[o].items[2].claimed_by = <<>>

\* C18: both_inclusive round trip: on every stored both_inclusive bill, for
\* each member's item subtotal S and for the bill subtotal S, the
\* back-calculated base gives base*(1+sc/100)*(1+vat/100) = S and
\* base + scAmt + vatAmt = S.
C18_InclusiveRoundTrip ==
  \A o \in DOMAIN db :
    db[o].fees_mode = "both_inclusive" =>
      LET sc == OrZero(db[o].service_charge_pct)
          vat == OrZero(db[o].vat_pct)
      IN \A S \in {person_total(db[o], u) : u \in Users} \cup {bill_total(db[o])} :
           LET base == inclusive_base(S, sc, vat)
               b == fee_breakdown(db[o], S)
           IN /\ FMul(FMul(base, OnePlusPct(sc)), OnePlusPct(vat)) = S
              /\ FAdd(FAdd(base, b[2]), b[3]) = S

\* the summary was just printed for a stored both_inclusive bill at 10% and 7%
\* on which a member's items come to 300
C18_Witness ==
  /\ reply = "summary"
  /\ \E o \in DOMAIN db :
       /\ db[o].fees_mode = "both_inclusive"
       /\ db[o].service_charge_pct = <<10>> /\ db[o].vat_pct = <<7>>
       /\ \E u \in Users : person_total(db[o], u) = Num(300)

\* the bill of the worked example: A = 300 claimed by user 1 alone, B = 200
\* claimed by user 2 alone, both_exclusive at 10% and 7%
IsScenarioExclusive(bill) ==
  /\ bill.fees_mode = "both_exclusive"
  /\ bill.service_charge_pct = <<10>> /\ bill.vat_pct = <<7>>
  /\ Len(bill.items) = 2
  /\ bill.items[1].price = 300 /\ ClaimSet(bill, bill.items[1].id) = {1}
  /\ bill.items[2].price = 200 /\ ClaimSet(bill, bill.items[2].id) = {2}

\* C19: both_exclusive: on every stored bill with items, for every user
\* scAmt = p_sub*sc/100, vatAmt = (p_sub+scAmt)*vat/100, total = p_sub + scAmt
\* + vatAmt, and the grand total is subtotal*(1+sc/100)*(1+vat/100); on the
\* bill of the worked example X = (300, 30, 23.1, 353.1), Y = (200, 20, 15.4,
\* 235.4) and the grand total is 588.5.
C19_ExclusiveFormulas ==
  \A o \in DOMAIN db :
    (db[o].fees_mode = "both_exclusive" /\ Len(db[o].items) > 0) =>
      LET sc == OrZero(db[o].service_charge_pct)
          vat == OrZero(db[o].vat_pct)
      IN /\ \A u \in Users :
              LET p_sub == person_total(db[o], u)
                  b == person_fee_breakdown(db[o], u)
              IN /\ b[1] = p_sub
                 /\ b[2] = FDiv(FMul(p_sub, Num(sc)), Num(100))
                 /\ b[3] = FDiv(FMul(FAdd(p_sub, b[2]), Num(vat)), Num(100))
                 /\ b[4] = FAdd(FAdd(p_sub, b[2]), b[3])
         /\ bill_grand_total(db[o]) =
              FMul(FMul(bill_total(db[o]), OnePlusPct(sc)), OnePlusPct(vat))
         /\ IsScenarioExclusive(db[o]) =>
              /\ person_fee_breakdown(db[o], 1)
                   = <<Num(300), Num(30), Frac(231, 10), Frac(3531, 10)>>
              /\ person_fee_breakdown(db[o], 2)
                   = <<Num(200), Num(20), Frac(154, 10), Frac(2354, 10)>>
              /\ bill_grand_total(db[o]) = Frac(5885, 10)

\* the summary was just printed for the bill of the worked example
C19_Witness ==
  /\ reply = "summary"
  /\ \E o \in DOMAIN db : IsScenarioExclusive(db[o])

\* C20: both_inclusive adds nothing on top: on every stored both_inclusive
\* bill the grand total is the item subtotal, every user's total is that
\* user's item subtotal, and the service charge and VAT amounts together are
\* no more than it.
C20_InclusiveNothingOnTop ==
  \A o \in DOMAIN db :
    db[o].fees_mode = "both_inclusive" =>
      /\ bill_grand_total(db[o]) = bill_total(db[o])
      /\ \A u \in Users :
           LET b == person_fee_breakdown(db[o], u)
           IN /\ b[4] = person_total(db[o], u)
              /\ b[1] = person_total(db[o], u)
              /\ b[2][1] >= 0 /\ b[3][1] >= 0
              /\ FSub(b[4], FAdd(b[2], b[3]))[1] >= 0

\* a stored both_inclusive bill at 10% and 7% with items of 500 in all, every
\* item claimed, its summary just printed
C20_Witness ==
  /\ reply = "summary"
  /\ \E o \in DOMAIN db :
       /\ db[o].fees_mode = "both_inclusive"
       /\ db[o].service_charge_pct = <<10>> /\ db[o].vat_pct = <<7>>
       /\ bill_total(db[o]) = Num(500)
       /\ \A k \in 1..Len(db[o].items) : db[o].items[k].claimed_by # <<>>

\* the stored bill with its VAT percentage replaced
WithVat(bill, v) == [bill EXCEPT !.vat_pct = <<v>>]

\* C21: sc_exclusive_vat_inclusive: on every stored bill with items, for every
\* user the total is p_sub*(1+sc/100) and the grand total is
\* subtotal*(1+sc/100), both the same whatever VAT percentage is stored; the
\* VAT amount is total - total/(1+vat/100), zero at vat = 0, and the service
\* charge amount is zero at sc = 0.
C21_ScExclusiveVatInclusive ==
  \A o \in DOMAIN db :
    (db[o].fees_mode = "sc_exclusive_vat_inclusive" /\ Len(db[o].items) > 0) =>
      LET sc == OrZero(db[o].service_charge_pct)
          vat == OrZero(db[o].vat_pct)
      IN /\ bill_grand_total(db[o]) = FMul(bill_total(db[o]), OnePlusPct(sc))
         /\ \A v \in VatPcts :
              bill_grand_total(WithVat(db[o], v)) = bill_grand_total(db[o])
         /\ \A u \in Users :
              LET p_sub == person_total(db[o], u)
                  b == person_fee_breakdown(db[o], u)
              IN /\ b[1] = p_sub
                 /\ b[4] = FMul(p_sub, OnePlusPct(sc))
                 /\ \A v \in VatPcts :
                      person_fee_breakdown(WithVat(db[o], v), u)[4] = b[4]
                 /\ b[3] = FSub(b[4], FDiv(b[4], OnePlusPct(vat)))
                 /\ (vat = 0) => (b[3] = Num(0))
                 /\ (sc = 0) => (b[2] = Num(0))

\* a stored sc_exclusive_vat_inclusive bill at 10% and 7% with an item that
\* user 1 claimed, its summary just printed
C21_Witness ==
  /\ reply = "summary"
  /\ \E o \in DOMAIN db :
       /\ db[o].fees_mode = "sc_exclusive_vat_inclusive"
       /\ db[o].service_charge_pct = <<10>> /\ db[o].vat_pct = <<7>>
       /\ HoldsClaim(db[o], 1)

\* the stored bill with the fee mode unset and the given percentages stored
WithUnsetMode(bill, sc, vat) ==
  [bill EXCEPT !.fees_mode = None,
               !.service_charge_pct = <<sc>>,
               !.vat_pct = <<vat>>]

\* C22: fees are inert while the mode is unset: on every stored bill whose
\* mode is unset, and on every stored bill with its mode unset and any
\* percentages stored in it, the grand total is the item subtotal and every
\* user's breakdown is (item subtotal, 0, 0, item subtotal).
C22_UnsetModeInert ==
  \A o \in DOMAIN db :
    LET Inert(bill) ==
          /\ bill_grand_total(bill) = bill_total(bill)
          /\ \A u \in Users :
               person_fee_breakdown(bill, u)
                 = <<person_total(bill, u), Num(0), Num(0), person_total(bill, u)>>
    IN /\ (db[o].fees_mode = None) => Inert(db[o])
       /\ \A sc \in ScPcts, vat \in VatPcts :
            Inert(WithUnsetMode(db[o], sc, vat))

\* a stored bill with the mode unset and an item that user 1 claimed, its
\* summary just printed
C22_Witness ==
  /\ reply = "summary"
  /\ \E o \in DOMAIN db :
       /\ db[o].fees_mode = None
       /\ HoldsClaim(db[o], 1)
       /\ bill_grand_total(WithUnsetMode(db[o], 10, 7)) = bill_total(db[o])

\* C24: fees are allocated in proportion: on every stored bill with a
\* non-zero subtotal, in every mode and with the mode unset, the total of
\* every user's breakdown is grand total * person_total / bill_total, the
\* value of person_grand_total.
C24_ProportionalAllocation ==
  \A o \in DOMAIN db :
    (bill_total(db[o]) # Num(0)) =>
      \A u \in Users :
        /\ person_fee_breakdown(db[o], u)[4]
             = FDiv(FMul(bill_grand_total(db[o]), person_total(db[o], u)),
                    bill_total(db[o]))
        /\ person_fee_breakdown(db[o], u)[4] = person_grand_total(db[o], u)

\* a stored both_exclusive bill at 10% and 7% whose two members have claimed
\* items of different subtotals, its summary just printed
C24_Witness ==
  /\ reply = "summary"
  /\ \E o \in DOMAIN db :
       /\ db[o].fees_mode = "both_exclusive"
       /\ db[o].service_charge_pct = <<10>> /\ db[o].vat_pct = <<7>>
       /\ person_total(db[o], 1) = Num(300)
       /\ person_total(db[o], 2) = Num(200)

\* C26: FeeConfig is well-formed: in every stored bill fees_mode is unset or
\* one of the three modes and the service charge and VAT percentages are each
\* unset or >= 0, whatever the extractor returned and whichever of /setfees,
\* fees:confirm and fees:none stored them.
C26_FeeConfigWellFormed ==
  \A o \in DOMAIN db :
    /\ db[o].fees_mode \in Modes \cup {None}
    /\ db[o].service_charge_pct = <<>> \/ db[o].service_charge_pct[1] >= 0
    /\ db[o].vat_pct = <<>> \/ db[o].vat_pct[1] >= 0

\* C23: no share or fee computation divides by zero: on every stored bill the
\* per-person share of every item is a number, the full price when nobody
\* claimed the item; every field of every user's breakdown and
\* person_grand_total are numbers, all zero when the item subtotal is zero.
C23_NoDivisionByZero ==
  \A o \in DOMAIN db :
    /\ \A k \in 1..Len(db[o].items) :
         /\ item_per_person(db[o].items[k]) # ZeroDivision
         /\ (db[o].items[k].claimed_by = <<>>) =>
              (item_per_person(db[o].items[k]) = Num(db[o].items[k].price))
    /\ \A u \in Users :
         /\ \A j \in 1..4 : person_fee_breakdown(db[o], u)[j] # ZeroDivision
         /\ person_grand_total(db[o], u) # ZeroDivision
         /\ (bill_total(db[o]) = Num(0)) =>
              /\ person_fee_breakdown(db[o], u) = <<Num(0), Num(0), Num(0), Num(0)>>
              /\ person_grand_total(db[o], u) = Num(0)

\* C25: an empty extraction: the photo handler answers that the extraction
\* failed and the stored session is the one it read when the photo arrived: it
\* has stored no changed field by the time the extraction returns, and it
\* stores nothing when the result is empty.
C25_EmptyExtractionNoChange ==
  [][\A p \in Procs :
       /\ (pc[p] = "loaded" /\ loc[p] # NoBill /\ photo_start(p)) =>
            (db' = save_bill(db, loc[p]))
       /\ (pc[p] = "photo_ocr" /\ photo_ocr(p, <<>>)) =>
            (db' = db /\ reply' = "extract_failed")]_vars

\* C27: every stored item has a price > 0 and a non-empty name, whether
\* /additem or the receipt extraction added it, and every step that stores a
\* new item stores it with an empty claim list.
C27_ItemsWellFormed ==
  [][\A o \in DOMAIN db' :
       \A k \in 1..Len(db'[o].items) :
         /\ FloatGt(db'[o].items[k].price, 0)
         /\ db'[o].items[k].name # ""
         /\ (o \in DOMAIN db /\ Len(db[o].items) < k) =>
              (db'[o].items[k].claimed_by = <<>>)]_vars

\* C28: lifecycle ordering: no step adds an item to a stored session or
\* finalizes it while the session's currency is unset or, for a JPY session,
\* while its conversion rate is unset.
C28_LifecycleOrdering ==
  [][\A o \in DOMAIN db \cap DOMAIN db' :
       (\/ Len(db'[o].items) > Len(db[o].items)
        \/ ~db[o].is_finalized /\ db'[o].is_finalized) =>
         /\ db[o].currency # None
         /\ (db[o].currency = "JPY") => (db[o].jpy_to_thb_rate # <<>>)]_vars

\* the two fields finalize writes
FinalizedFields(bill) == <<bill.is_finalized, bill.finalized_at>>

\* C29: in every stored session finalized_at is set if and only if
\* is_finalized is True; /done and the finalize button set both in one save,
\* and every other handler stores the two fields as they are in the copy it
\* read.
C29_FinalizedAtIffFinalized ==
  [][\A o \in DOMAIN db' :
       /\ (db'[o].finalized_at # None) <=> db'[o].is_finalized
       /\ (o \in DOMAIN db /\ FinalizedFields(db'[o]) # FinalizedFields(db[o])) =>
            \E p \in Procs :
              /\ pc[p] # "idle" /\ loc[p] # NoBill /\ loc[p].oid = o
              /\ \/ FinalizedFields(db'[o]) = FinalizedFields(loc[p])
                 \/ /\ cmd_done(p) \/ cb_finalize(p)
                    /\ reply' = "summary"
                    /\ FinalizedFields(db'[o]) = <<TRUE, "set">>]_vars

\* a stored session that /done or the finalize button finalized, next to a
\* newer session of the chat that is not finalized
C29_Witness ==
  \E o \in DOMAIN db, n \in DOMAIN db :
    /\ db[o].is_finalized /\ db[o].finalized_at = "set"
    /\ ~db[n].is_finalized /\ db[n].finalized_at = None
    /\ db[n].created_at > db[o].created_at

\* C30: the awaiting-rate substate persists until resolved: a stored session
\* whose awaiting_manual_rate is True keeps it True across every step, except
\* the step of a text message that parses to a number > 0, which stores that
\* number as the rate and clears the flag in the same save; and a text message
\* handled while the flag is False changes no stored session.
C30_AwaitingRatePersists ==
  [][/\ \A o \in DOMAIN db :
          (db[o].awaiting_manual_rate /\ o \in DOMAIN db'
             /\ ~db'[o].awaiting_manual_rate) =>
            \E p \in Procs, t \in RateTexts :
              /\ text_handler(p, t)
              /\ ~RateRejected(ParseFloat(t))
              /\ db'[o].jpy_to_thb_rate = ParseFloat(t)
     /\ \A p \in Procs :
          (pc[p] = "loaded" /\ loc[p] # NoBill /\ ~loc[p].awaiting_manual_rate
             /\ \E t \in RateTexts : text_handler(p, t)) =>
            (db' = db)]_vars

\* C31: a receipt extraction that proposes a fee configuration leaves the
\* stored session with awaiting_fees True, and a stored awaiting_fees stays True
\* until fees:confirm, /setfees or fees:none stores it False.
C31_AwaitingFeesAfterOcr ==
  [][/\ \A p \in Procs, sc \in OcrPcts, vat \in OcrPcts :
          (pc[p] = "photo_items" /\ photo_finish(p, sc, vat)
             /\ proposes_fees(loc[p], sc, vat)) =>
            db'[loc[p].oid].awaiting_fees
     /\ \A o \in DOMAIN db \cap DOMAIN db' :
          (db[o].awaiting_fees /\ ~db'[o].awaiting_fees) =>
            reply' = "fees_set"]_vars

\* the indexes of the items of a bill copy that user u has a claim on
ClaimedItems(bill, u) == {j \in 1..Len(bill.items) : HasClaim(bill.items[j], u)}

\* stored is the copy b with user u's claims taken off the items of ks: every
\* other claim, in its order, and every other field as in b
OnlyClaimsOff(stored, b, u, ks) ==
  /\ [stored EXCEPT !.items = b.items] = b
  /\ Len(stored.items) = Len(b.items)
  /\ \A j \in 1..Len(b.items) :
       /\ [stored.items[j] EXCEPT !.claimed_by = b.items[j].claimed_by] = b.items[j]
       /\ ClaimSet(stored, b.items[j].id)
            = ClaimSet(b, b.items[j].id) \ (IF j \in ks THEN {u} ELSE {})
       /\ (j \notin ks \/ ~HasClaim(b.items[j], u)) =>
            (stored.items[j] = b.items[j])

\* C32: unclaim operations touch only the caller's claims: /unpick i by user u
\* stores the copy it read with u's claim on item i removed if present and
\* nothing else changed, and stores nothing for an unknown item; /resetpicks by
\* u stores the copy with u's claims removed from every item and answers with
\* the number of items u had claimed; the other users' claims, the items,
\* the members and the fee fields are as read.
C32_UnclaimOnlyCaller ==
  [][\A p \in Procs, u \in Users :
       (pc[p] = "loaded" /\ loc[p] # NoBill) =>
         /\ \A i \in ItemIds :
              cmd_unpick(p, u, i) =>
                LET k == get_item(loc[p], i)
                IN IF k = 0 THEN db' = db /\ reply' = "item_not_found"
                   ELSE /\ loc[p].oid \in DOMAIN db'
                        /\ OnlyClaimsOff(db'[loc[p].oid], loc[p], u, {k})
                        /\ reply' = "unpicked"
         /\ cmd_resetpicks(p, u) =>
              LET n == Cardinality(ClaimedItems(loc[p], u))
              IN /\ loc[p].oid \in DOMAIN db'
                 /\ OnlyClaimsOff(db'[loc[p].oid], loc[p], u, 1..Len(loc[p].items))
                 /\ reply' = IF n = 0 THEN "no_picks"
                             ELSE IF n = 1 THEN "reset_1"
                             ELSE IF n = 2 THEN "reset_2"
                             ELSE "reset_3"]_vars

\* /resetpicks has just cleared the two claims of one member while the other
\* member's claim on a shared item stays
C32_Witness ==
  /\ reply = "reset_2"
  /\ \E b \in ActiveBills(Chat) : \E k \in 1..Len(b.items), u \in Users :
       /\ ClaimSet(b, b.items[k].id) = {u}
       /\ ClaimedItems(b, u) = {k}

\* C33: items are append-only and immutable: every item of a stored session
\* is still in the session after every step that keeps the session, with the
\* same id, name and price, whatever handlers overlap; only its claim list
\* may differ.
C33_ItemsAppendOnly ==
  [][\A o \in DOMAIN db \cap DOMAIN db' :
       \A k \in 1..Len(db[o].items) :
         \E j \in 1..Len(db'[o].items) :
           /\ db'[o].items[j].id = db[o].items[k].id
           /\ db'[o].items[j].name = db[o].items[k].name
           /\ db'[o].items[j].price = db[o].items[k].price]_vars

\* the user ids of the members of a bill copy
MemberIds(bill) == {bill.members[k].uid : k \in 1..Len(bill.members)}

\* C34: in every stored session every claim on every item belongs to a
\* member and the creator is a member, and no step takes a member out of a
\* stored session that is active.
C34_ClaimantsAreMembers ==
  [][\A o \in DOMAIN db' :
       /\ \A i \in ItemIds : ClaimSet(db'[o], i) \subseteq MemberIds(db'[o])
       /\ db'[o].creator_id \in MemberIds(db'[o])
       /\ (o \in DOMAIN db /\ ~db[o].is_finalized) =>
            (MemberIds(db[o]) \subseteq MemberIds(db'[o]))]_vars
====
